---- MODULE Spec2Model ----
(***************************************************************************)
(* Model of packages/secretcli/src/secretcli.rs: the process runner        *)
(* (secretcli_run and the loop of account_address), the transaction        *)
(* helpers that build argument lists, the contract cache (save_contract,   *)
(* load_cached_contract) and the instantiate-and-resolve flows             *)
(* (test_inst_init, TestInit::inst_init).                                  *)
(*                                                                         *)
(* The program is sequential: one top-level call runs at a time.  The      *)
(* daemon and the file system are the environment; every outcome they can  *)
(* produce (launch failure, any stdout/stderr, failing directory or file   *)
(* creation, a write that stops part-way) is a nondeterministic choice.    *)
(***************************************************************************)
EXTENDS Naturals, Sequences, FiniteSets, TLC

VARIABLES
    op,        \* the top-level operation called last ("idle" before any call)
    pc,        \* the position of that call in its code
    arg,       \* the arguments of that call
    run,       \* the process runner: command, loop counter, last Output
    contract,  \* the NetContract a flow is assembling
    ret,       \* what the call gave its caller: Ok, Err or a panic
    fs,        \* the cache directory: whether it exists, and its files
    hist,      \* observations of the current call (counters, commands run)
    prev       \* the call before the current one, as its caller saw it

vars == <<op, pc, arg, run, contract, ret, fs, hist, prev>>

----------------------------------------------------------------------------
(* Bounds of the model *)

\* a write that fails has written at most this many members of the object
MaxPartial == 1

----------------------------------------------------------------------------
(* Option, Result *)

None == <<>>
Some(x) == <<x>>
unwrap_or(o, d) == IF o = None THEN d ELSE o[1]

Ok(x) == [kind |-> "Ok", v |-> x]
Err(e) == [kind |-> "Err", e |-> e]
Panic(m) == [kind |-> "panic", msg |-> m]
Pending == [kind |-> "pending"]

\* the two error types of the file: serde_json::Error and std::io::Error
SerdeError == "serde_json::Error"
IoNoCached == "io::Error(Other, no cached contract found)"
IoOpen == "io::Error(open)"
IoParse == "io::Error(from serde_json)"

----------------------------------------------------------------------------
(* The daemon: what one invocation of secretd can produce.                 *)

\* stdout is either a JSON document (its value kept with its shape) or text
Json(shape, v) == [t |-> "json", shape |-> shape, v |-> v]
Text(s) == [t |-> "text", s |-> s]

Attr(k, v) == [msg_key |-> k, value |-> v]
Event(attrs) == [attributes |-> attrs]
Log(events) == [events |-> events]
TxQueryVal(rawlog, logs) == [txhash |-> "H", raw_log |-> rawlog, logs |-> logs]

\* the attribute lists the daemon is observed with
AttrsNone == <<Attr("other", "x")>>
AttrsBoth ==
    <<Attr("other", "x"), Attr("code_id", "7"), Attr("contract_address", "A"),
      Attr("code_id", "8"), Attr("contract_address", "B")>>

TxQueries ==
    { TxQueryVal("", <<>>),                                   \* no log
      TxQueryVal("failed to execute message", <<Log(<<>>)>>), \* no event
      TxQueryVal("", <<Log(<<Event(AttrsNone)>>)>>),          \* key absent
      TxQueryVal("", <<Log(<<Event(AttrsBoth)>>)>>),          \* key present
      \* the keys only in a later event
      TxQueryVal("", <<Log(<<Event(AttrsNone), Event(AttrsBoth)>>)>>) }

CodeList ==
    <<[id |-> 8, data_hash |-> "h8"], [id |-> 7, data_hash |-> "h7"],
      [id |-> 7, data_hash |-> "hx"]>>

AddrTexts ==
    { <<"s", "1">>, <<"s", "1", "LF">>, <<"s", "1", "CR", "LF">>,
      <<"s", "1", "LF", "LF">>, <<"CR", "LF">>, <<>> }

NotJson == Text(<<"E", "r", "r">>)
OtherJson == Json("object", [code |-> 1])

\* the document a command prints when the daemon answers it
Answer(cmd) ==
    IF cmd[1] = "tx" THEN Json("TxResponse", [txhash |-> "H"])
    ELSE IF cmd[1] = "q"
      THEN Json("TxQuery", TxQueryVal("", <<Log(<<Event(AttrsBoth)>>)>>))
    ELSE IF cmd[1] = "query" THEN Json("CodeList", [items |-> CodeList])
    ELSE Text(<<"s", "1", "LF">>)

\* the stdout documents possible for a command
Stdouts(cmd) ==
    IF cmd[1] = "tx" THEN {NotJson, OtherJson, Answer(cmd)}
    ELSE IF cmd[1] = "q"
      THEN {NotJson, OtherJson} \cup {Json("TxQuery", q) : q \in TxQueries}
    ELSE IF cmd[1] = "query" THEN {NotJson, OtherJson, Answer(cmd)}
    ELSE {Text(s) : s \in AddrTexts}

\* an invocation that wrote to stderr printed nothing usable, or its answer
\* all the same (stderr then held a warning)
FailStdouts(cmd) ==
    {IF cmd[1] = "keys" THEN Text(<<>>) ELSE NotJson, Answer(cmd)}

\* std::process::Output, or the io::Error of a launch that failed
Outputs(cmd) ==
    {[launched |-> TRUE, stdout |-> o, stderr |-> ""] : o \in Stdouts(cmd)}
    \cup {[launched |-> TRUE, stdout |-> o, stderr |-> "warning"] :
             o \in FailStdouts(cmd)}
    \cup {[launched |-> FALSE]}

NoOutput == [launched |-> TRUE, stdout |-> Text(<<>>), stderr |-> ""]

----------------------------------------------------------------------------
(* Argument lists *)

vec_str_to_vec_string(str_in) == [k \in 1..Len(str_in) |-> str_in[k]]

store_command(contract_file, user, gas, backend) ==
    LET command_arr ==
            <<"tx", "compute", "store", contract_file,
              "--from", unwrap_or(user, "a"),
              "--gas", unwrap_or(gas, "10000000"),
              "-y">>
    IN  vec_str_to_vec_string(
            IF backend # None
              THEN command_arr \o <<"--keyring-backend", backend[1]>>
              ELSE command_arr)

instantiate_command(id, message, label, sender, gas, backend) ==
    LET command ==
            <<"tx", "compute", "instantiate", id, message,
              "--from", sender, "--label", label, "--gas">>
        withGas == Append(command, IF gas = None THEN "10000000" ELSE gas[1])
        withBackend ==
            IF backend # None
              THEN withGas \o <<"--keyring-backend", backend[1]>>
              ELSE withGas
    IN  vec_str_to_vec_string(Append(withBackend, "-y"))

execute_command(address, message, sender, gas, backend, amount) ==
    LET command ==
            <<"tx", "compute", "execute", address, message,
              "--from", sender, "--gas">>
        withGas == Append(command, IF gas = None THEN "800000" ELSE gas[1])
        withBackend ==
            IF backend # None
              THEN withGas \o <<"--keyring-backend", backend[1]>>
              ELSE withGas
        withAmount ==
            IF amount # None
              THEN withBackend \o <<"--amount", amount[1]>>
              ELSE withBackend
    IN  vec_str_to_vec_string(Append(withAmount, "-y"))

query_hash_command(hash) == vec_str_to_vec_string(<<"q", "tx", hash>>)

list_code_command == vec_str_to_vec_string(<<"query", "compute", "list-code">>)

account_address_command(acc) ==
    vec_str_to_vec_string(<<"keys", "show", "-a", acc>>)

\* secretcli_run appends the output format to the command it is given
secretcli_args(command) ==
    command \o vec_str_to_vec_string(<<"--output", "json">>)

----------------------------------------------------------------------------
(* The process runner *)

\* mutant: one pass fewer
retry_short == 20 - 1

retry == 20

is_empty(s) == s = ""

\* mutant: a failed launch is taken for an empty Output
expect_or_default(d, msg) == IF d.launched THEN Ok(d) ELSE Ok(NoOutput)

\* Result::expect on what Command::output gave
expect(d, msg) == IF d.launched THEN Ok(d) ELSE Panic(msg)

\* mutant: the loop has no break
LoopNeverBreaks(result) == FALSE

\* the loop's test: an empty stderr leaves the loop
LoopBreaks(result) == is_empty(result.stderr)

\* serde_json::from_str on the captured stdout
from_str(stdout) ==
    IF stdout.t = "json"
      THEN Ok([shape |-> stdout.shape, v |-> stdout.v])
      ELSE Err(SerdeError)

\* serde_json::from_value into the type named by shape
from_value(shape, json) ==
    IF json.shape = shape THEN Ok(json.v) ELSE Err(SerdeError)

trim_newline(s) ==
    IF Len(s) > 0 /\ s[Len(s)] = "LF"
      THEN LET t == SubSeq(s, 1, Len(s) - 1)
           IN  IF Len(t) > 0 /\ t[Len(t)] = "CR"
                 THEN SubSeq(t, 1, Len(t) - 1)
                 ELSE t
      ELSE s

RunOff ==
    [pc |-> "off", kind |-> "json", given |-> <<>>, cmd |-> <<>>, i |-> 0,
     result |-> NoOutput, out |-> Pending]

\* secretcli_run(command): the daemon gets command and the output format
secretcli_run(command) ==
    [pc |-> "first", kind |-> "json", given |-> command,
     cmd |-> secretcli_args(command), i |-> 0,
     result |-> NoOutput, out |-> Pending]

\* the runner inside account_address: the daemon gets command as it is
account_address_run(command) ==
    [pc |-> "first", kind |-> "raw", given |-> command,
     cmd |-> command, i |-> 0,
     result |-> NoOutput, out |-> Pending]

\* the counters of one call to the runner start anew with the next one
HistNewRun(h) ==
    [h EXCEPT !.inv = 0, !.sleeps = 0, !.parses = 0, !.emptyAt = 0,
              !.emptyOut = NoOutput.stdout, !.parsed = NoOutput.stdout]

\* inv, sleeps, parses: invocations, sleeps and parses of this call to the
\* runner; emptyAt, emptyOut: the first invocation of it that left stderr
\* empty, and its stdout; parsed: the stdout that was parsed; failAt: the
\* invocation whose launch failed; cmds: the commands handed to the runner
\* and invoked; okSteps: the helpers that returned Ok to a flow; scans,
\* storeAttrs, initAttrs: the attribute lists a flow scanned; fileOps, saves,
\* wrote: file operations of a load, calls of save_contract and how the write
\* ended; fs0: the cache when the call began
Hist0(f) ==
    [inv |-> 0, sleeps |-> 0, parses |-> 0, emptyAt |-> 0,
     emptyOut |-> NoOutput.stdout, parsed |-> NoOutput.stdout,
     launchFail |-> FALSE, failAt |-> 0, cmds |-> <<>>, okSteps |-> 0,
     scans |-> 0, storeAttrs |-> <<>>, initAttrs |-> <<>>,
     fileOps |-> 0, saves |-> 0, wrote |-> "none", fs0 |-> f]

\* what one more invocation adds to the observations
HistInvoke(h, d) ==
    LET firstEmpty == h.emptyAt = 0 /\ d.launched /\ d.stderr = ""
        firstFail == ~h.launchFail /\ ~d.launched
    IN  [h EXCEPT !.inv = @ + 1,
                  !.launchFail = @ \/ ~d.launched,
                  !.failAt = IF firstFail THEN h.inv + 1 ELSE @,
                  !.emptyAt = IF firstEmpty THEN h.inv + 1 ELSE @,
                  !.emptyOut = IF firstEmpty THEN d.stdout ELSE @]

\* the first cli.output() of a call to the runner
FirstOutput(kind, msg) ==
    /\ run.pc = "first"
    /\ run.kind = kind
    /\ \E d \in Outputs(run.cmd) :
         LET r == expect(d, msg)
             h == [HistInvoke(HistNewRun(hist), d) EXCEPT
                       !.cmds = Append(@, run.given)]
         IN  /\ hist' = h
             /\ IF r.kind = "panic"
                  THEN /\ ret' = r
                       /\ pc' = "returned"
                       /\ run' = [run EXCEPT !.pc = "off"]
                  ELSE /\ run' = [run EXCEPT !.pc = "loop", !.result = r.v]
                       /\ UNCHANGED <<ret, pc>>
    /\ UNCHANGED <<op, arg, contract, fs, prev>>

\* the loop goes on: passes are left and the last Output wrote to stderr
LoopGoesOn == run.i < retry /\ ~LoopBreaks(run.result)

\* one pass of `for _ in 0..retry` that sleeps and invokes the daemon again
LoopIteration(kind, msg) ==
    /\ run.pc = "loop"
    /\ run.kind = kind
    /\ LoopGoesOn
    /\ \E d \in Outputs(run.cmd) :
         LET r == expect(d, msg)
             h == [HistInvoke(hist, d) EXCEPT !.sleeps = @ + 1]
         IN  /\ hist' = h
             /\ IF r.kind = "panic"
                  THEN /\ ret' = r
                       /\ pc' = "returned"
                       /\ run' = [run EXCEPT !.pc = "off"]
                  ELSE /\ run' = [run EXCEPT !.i = @ + 1, !.result = r.v]
                       /\ UNCHANGED <<ret, pc>>
    /\ UNCHANGED <<op, arg, contract, fs, prev>>

secretcli_run_output == FirstOutput("json", "Unexpected error")

secretcli_run_loop == LoopIteration("json", "Unexpected error")

\* the loop is left (break, or no pass left) and the stdout of the last
\* Output is parsed as one JSON value
secretcli_run_return ==
    /\ run.pc = "loop"
    /\ run.kind = "json"
    /\ ~LoopGoesOn
    /\ run' = [run EXCEPT !.pc = "done", !.out = from_str(run.result.stdout)]
    /\ hist' = [hist EXCEPT !.parses = @ + 1, !.parsed = run.result.stdout]
    /\ UNCHANGED <<op, pc, arg, contract, ret, fs, prev>>

account_address_output ==
    FirstOutput("raw",
        "Unexpected error. Maybe secretd/secretcli is not installed?")

account_address_loop == LoopIteration("raw", "Unexpected error")

\* the loop is left and the stdout of the last Output, less one trailing
\* newline, is returned
account_address_return ==
    /\ run.pc = "loop"
    /\ run.kind = "raw"
    /\ ~LoopGoesOn
    /\ op = "account_address"
    /\ ret' = Ok(trim_newline(run.result.stdout.s))
    /\ pc' = "returned"
    /\ run' = [run EXCEPT !.pc = "off"]
    /\ hist' = [hist EXCEPT !.parsed = run.result.stdout]
    /\ UNCHANGED <<op, arg, contract, fs, prev>>

----------------------------------------------------------------------------
(* The contract cache *)

Names == {"n1", "n2"}

CONTRACT_CACHE_DIR == "../cached_contracts/"

\* CONTRACT_CACHE_DIR.to_owned() + name
CachePath(name) == <<CONTRACT_CACHE_DIR, name>>

NetContract(label, id, address, code_hash) ==
    [label |-> label, id |-> id, address |-> address, code_hash |-> code_hash]

\* the JSON object of a NetContract, member by member in field order
Serialize(c) ==
    << <<"label", c.label>>, <<"id", c.id>>, <<"address", c.address>>,
       <<"code_hash", c.code_hash>> >>

\* a NetContract is read back from a complete object only
Deserialize(data) ==
    IF /\ Len(data) = 4
       /\ <<data[1][1], data[2][1], data[3][1], data[4][1]>>
            = <<"label", "id", "address", "code_hash">>
      THEN Ok(NetContract(data[1][2], data[2][2], data[3][2], data[4][2]))
      ELSE Err(IoParse)

NoFile == [exists |-> FALSE, data |-> <<>>]
FileOf(f, path) == f.files[path[2]]

\* File::open
FileOpen(f, path) ==
    IF f.dir /\ FileOf(f, path).exists THEN Ok(FileOf(f, path)) ELSE Err(IoOpen)

\* mutant: the file is opened without truncating it
FileCreateKeep(file) == [exists |-> TRUE, data |-> file.data]

\* File::create truncates the file it opens
FileCreate(file) == [exists |-> TRUE, data |-> <<>>]

\* mutant: without a name the file of a default name is read
load_default_name(f, contract_name) ==
    LET file == FileOpen(f, CachePath(unwrap_or(contract_name, "n1")))
    IN  [res |-> IF file.kind = "Err" THEN file ELSE Deserialize(file.v.data),
         ops |-> 1]

\* the result, and the file operations it took
load_cached_contract(f, contract_name) ==
    IF contract_name # None
      THEN LET file == FileOpen(f, CachePath(contract_name[1]))
           IN  [res |-> IF file.kind = "Err" THEN file
                        ELSE Deserialize(file.v.data),
                ops |-> 1]
      ELSE [res |-> Err(IoNoCached), ops |-> 0]

\* what the file system does during one save_contract: whether create_dir and
\* File::create succeed, and how many of the 4 members to_writer writes
SaveEnvs ==
    [mkdir : BOOLEAN, create : BOOLEAN,
     written : {k \in 0..3 : k <= MaxPartial} \cup {4}]

save_contract(f, name, c, env) ==
    LET dir_exists == f.dir
        f1 == IF ~dir_exists /\ env.mkdir THEN [f EXCEPT !.dir = TRUE] ELSE f
        path == CachePath(name)
        created == f1.dir /\ env.create
        file == FileCreate(FileOf(f1, path))
        data == file.data \o SubSeq(Serialize(c), 1, env.written)
    IN  IF created
          THEN [panic |-> FALSE,
                fs |-> [f1 EXCEPT !.files[path[2]] =
                                      [exists |-> TRUE, data |-> data]],
                wrote |-> IF env.written = 4 THEN "full" ELSE "partial"]
          ELSE [panic |-> TRUE, fs |-> f1, wrote |-> "none"]

----------------------------------------------------------------------------
(* Calls and returns *)

Opt(S) == {None} \cup {Some(x) : x \in S}

EmptyContract(label) == NetContract(label, "", "", "")

SampleContracts == {NetContract("lbl", "7", "A", "h7"), EmptyContract("lbl")}

NoPrev == [op |-> "none"]

\* what the next call remembers of the one that just ended: a call that gave a
\* name to the cache and returned normally
PrevCall ==
    IF /\ op \in {"save_contract", "test_inst_init"}
       /\ ret.kind = "Ok"
       /\ arg.name # None
      THEN [op |-> op, name |-> arg.name[1], contract |-> ret.v,
            wrote |-> hist.wrote]
      ELSE NoPrev

BeginCall(o, a) ==
    /\ pc \in {"idle", "returned"}
    /\ op' = o
    /\ arg' = a
    /\ prev' = PrevCall

\* a call that goes on to use the runner
BeginRun(o, a, r) ==
    /\ BeginCall(o, a)
    /\ ret' = Pending
    /\ hist' = Hist0(fs)
    /\ pc' = "run"
    /\ run' = r

Return(r) ==
    /\ ret' = r
    /\ pc' = "returned"
    /\ run' = RunOff

\* `secretcli_run(command)?` followed by serde_json::from_value
HelperResult(shape) ==
    IF run.out.kind = "Err" THEN run.out ELSE from_value(shape, run.out.v)

\* a helper called on its own returns what the runner's value deserializes to
HelperReturn(o, shape) ==
    /\ op = o
    /\ pc = "run"
    /\ run.pc = "done"
    /\ Return(HelperResult(shape))
    /\ UNCHANGED <<op, arg, contract, fs, hist, prev>>

call_store_contract ==
    \E user \in Opt({"bob"}), gas \in Opt({"500"}), backend \in Opt({"test"}) :
        /\ BeginRun("store_contract",
               [contract |-> "c.wasm", user |-> user, gas |-> gas,
                backend |-> backend],
               secretcli_run(store_command("c.wasm", user, gas, backend)))
        /\ UNCHANGED <<contract, fs>>

store_contract_return == HelperReturn("store_contract", "TxResponse")

call_instantiate_contract ==
    \E c \in SampleContracts, gas \in Opt({"500"}), backend \in Opt({"test"}) :
        /\ BeginRun("instantiate_contract",
               [contract |-> c, msg |-> "{init}", label |-> "lbl",
                sender |-> "admin", gas |-> gas, backend |-> backend],
               secretcli_run(
                   instantiate_command(c.id, "{init}", "lbl", "admin", gas,
                                       backend)))
        /\ UNCHANGED <<contract, fs>>

instantiate_contract_return ==
    HelperReturn("instantiate_contract", "TxResponse")

call_execute_contract ==
    \E c \in SampleContracts, gas \in Opt({"500"}), backend \in Opt({"test"}),
       amount \in Opt({"1uscrt"}) :
        /\ BeginRun("execute_contract",
               [contract |-> c, msg |-> "{exec}", sender |-> "admin",
                gas |-> gas, backend |-> backend, amount |-> amount],
               secretcli_run(
                   execute_command(c.address, "{exec}", "admin", gas, backend,
                                   amount)))
        /\ UNCHANGED <<contract, fs>>

execute_contract_return == HelperReturn("execute_contract", "TxResponse")

call_account_address ==
    /\ BeginRun("account_address", [acc |-> "admin"],
           account_address_run(account_address_command("admin")))
    /\ UNCHANGED <<contract, fs>>

call_load_cached_contract ==
    \E name \in Opt(Names) :
        LET r == load_cached_contract(fs, name)
        IN  /\ BeginCall("load_cached_contract", [name |-> name])
            /\ hist' = [Hist0(fs) EXCEPT !.fileOps = r.ops]
            /\ Return(r.res)
            /\ UNCHANGED <<contract, fs>>

call_save_contract ==
    \E name \in Names, c \in SampleContracts, env \in SaveEnvs :
        LET s == save_contract(fs, name, c, env)
        IN  /\ BeginCall("save_contract", [name |-> Some(name), contract |-> c])
            /\ hist' = [Hist0(fs) EXCEPT !.saves = 1, !.wrote = s.wrote]
            /\ fs' = s.fs
            /\ Return(IF s.panic THEN Panic("unwrap on File::create") ELSE Ok(c))
            /\ UNCHANGED contract

----------------------------------------------------------------------------
(* The instantiate-and-resolve flows: test_inst_init, TestInit::inst_init *)

\* gas and backend as the flows are called here: all given, or none
FlowOpts == {[gas |-> None, backend |-> None],
             [gas |-> Some("500"), backend |-> Some("test")]}

FlowArg(o, name) ==
    [contract_file |-> "c.wasm", label |-> "lbl", sender |-> "admin",
     msg |-> "{init}", store_gas |-> o.gas, init_gas |-> o.gas,
     backend |-> o.backend, name |-> name]

\* `for attribute in attributes { if attribute.msg_key == key { field =
\* attribute.value; break } }`, from the k-th attribute on
RECURSIVE ScanFrom(_, _, _, _)
ScanFrom(attributes, key, k, field) ==
    IF k > Len(attributes) THEN field
    ELSE IF attributes[k].msg_key = key THEN attributes[k].value
    ELSE ScanFrom(attributes, key, k + 1, field)

\* mutant: the scan has no break, the last match wins
RECURSIVE ScanAllFrom(_, _, _, _)
ScanAllFrom(attributes, key, k, field) ==
    IF k > Len(attributes) THEN field
    ELSE ScanAllFrom(attributes, key, k + 1,
             IF attributes[k].msg_key = key THEN attributes[k].value ELSE field)

ScanLast(attributes, key, field) == ScanAllFrom(attributes, key, 1, field)

ScanAttributes(attributes, key, field) == ScanFrom(attributes, key, 1, field)

\* `for item in listed_contracts { if item.id.to_string() == id { ..; break } }`
RECURSIVE FindHashFrom(_, _, _, _)
FindHashFrom(listed, id, k, field) ==
    IF k > Len(listed) THEN field
    ELSE IF ToString(listed[k].id) = id THEN listed[k].data_hash
    ELSE FindHashFrom(listed, id, k + 1, field)

FindHash(listed, id, field) == FindHashFrom(listed, id, 1, field)

\* logs[0].events[0] is there to be indexed
HasFirstEvent(query) ==
    Len(query.logs) > 0 /\ Len(query.logs[1].events) > 0

\* mutant: the cached contract is never used
NeverHit(res) == FALSE

\* the match on load_cached_contract: Ok(c) => Ok(c), _ => deploy
IsHit(res) == res.kind = "Ok"

\* mutant: without a name the contract is saved under a default name
SaveNameDefault(name) == IF name = None THEN Some("n1") ELSE name

\* the match on name before returning: Some(n) => save_contract(n, ..)
SaveName(name) == name

StoreRun(a) ==
    secretcli_run(store_command(a.contract_file, Some(a.sender), a.store_gas,
                                a.backend))

\* the names the flows are called with; other files of the cache stay
FlowNames == {"n1"}

call_test_inst_init ==
    \E o \in FlowOpts, name \in Opt(FlowNames) :
        /\ BeginCall("test_inst_init", FlowArg(o, name))
        /\ ret' = Pending
        /\ hist' = Hist0(fs)
        /\ pc' = "load"
        /\ run' = RunOff
        /\ contract' = EmptyContract("")
        /\ UNCHANGED fs

\* the cache is asked first; a miss of any kind starts the deployment
test_inst_init_load ==
    /\ op = "test_inst_init"
    /\ pc = "load"
    /\ LET r == load_cached_contract(fs, arg.name)
       IN  /\ hist' = [hist EXCEPT !.fileOps = @ + r.ops]
           /\ IF IsHit(r.res)
                THEN Return(Ok(r.res.v))
                ELSE /\ pc' = "store"
                     /\ run' = StoreRun(arg)
                     /\ ret' = ret
    /\ UNCHANGED <<op, arg, contract, fs, prev>>

call_inst_init ==
    \E o \in FlowOpts :
        /\ BeginCall("inst_init", FlowArg(o, None))
        /\ ret' = Pending
        /\ hist' = Hist0(fs)
        /\ pc' = "store"
        /\ run' = StoreRun(FlowArg(o, None))
        /\ contract' = EmptyContract("")
        /\ UNCHANGED fs

\* store_contract(..)? then query_hash(store_response.txhash)
FlowStore(o) ==
    /\ op = o
    /\ pc = "store"
    /\ run.pc = "done"
    /\ LET store_response == HelperResult("TxResponse")
       IN  IF store_response.kind = "Err"
             THEN Return(store_response) /\ UNCHANGED hist
             ELSE /\ pc' = "store_query"
                  /\ run' = secretcli_run(
                         query_hash_command(store_response.v.txhash))
                  /\ ret' = ret
                  /\ hist' = [HistNewRun(hist) EXCEPT !.okSteps = @ + 1]
    /\ UNCHANGED <<op, arg, contract, fs, prev>>

\* query_hash(..)?, the scan for code_id, then instantiate_contract
FlowStoreQuery(o) ==
    /\ op = o
    /\ pc = "store_query"
    /\ run.pc = "done"
    /\ LET store_query == HelperResult("TxQuery")
       IN  IF store_query.kind = "Err"
             THEN Return(store_query) /\ UNCHANGED <<contract, hist>>
           ELSE IF ~HasFirstEvent(store_query.v)
             THEN Return(Panic("index out of bounds")) /\ UNCHANGED <<contract, hist>>
           ELSE LET id == ScanAttributes(
                             store_query.v.logs[1].events[1].attributes,
                             "code_id", "")
                IN  /\ contract' = NetContract(arg.label, id, "", "")
                    /\ pc' = "instantiate"
                    /\ run' = secretcli_run(
                           instantiate_command(id, arg.msg, arg.label,
                               arg.sender, arg.init_gas, arg.backend))
                    /\ ret' = ret
                    /\ hist' = [HistNewRun(hist) EXCEPT
                                   !.okSteps = @ + 1, !.scans = @ + 1,
                                   !.storeAttrs = store_query.v.logs[1]
                                                    .events[1].attributes]
    /\ UNCHANGED <<op, arg, fs, prev>>

\* instantiate_contract(..)? then query_hash(tx.txhash)
FlowInstantiate(o) ==
    /\ op = o
    /\ pc = "instantiate"
    /\ run.pc = "done"
    /\ LET tx == HelperResult("TxResponse")
       IN  IF tx.kind = "Err"
             THEN Return(tx) /\ UNCHANGED hist
             ELSE /\ pc' = "init_query"
                  /\ run' = secretcli_run(query_hash_command(tx.v.txhash))
                  /\ ret' = ret
                  /\ hist' = [HistNewRun(hist) EXCEPT !.okSteps = @ + 1]
    /\ UNCHANGED <<op, arg, contract, fs, prev>>

\* query_hash(..)?, the scan for contract_address, then list_code
FlowInitQuery(o) ==
    /\ op = o
    /\ pc = "init_query"
    /\ run.pc = "done"
    /\ LET init_query == HelperResult("TxQuery")
       IN  IF init_query.kind = "Err"
             THEN Return(init_query) /\ UNCHANGED <<contract, hist>>
           ELSE IF ~HasFirstEvent(init_query.v)
             THEN Return(Panic("index out of bounds")) /\ UNCHANGED <<contract, hist>>
           ELSE /\ contract' =
                      [contract EXCEPT !.address = ScanAttributes(
                           init_query.v.logs[1].events[1].attributes,
                           "contract_address", @)]
                /\ pc' = "list_code"
                /\ run' = secretcli_run(list_code_command)
                /\ ret' = ret
                /\ hist' = [HistNewRun(hist) EXCEPT
                               !.okSteps = @ + 1, !.scans = @ + 1,
                               !.initAttrs = init_query.v.logs[1]
                                               .events[1].attributes]
    /\ UNCHANGED <<op, arg, fs, prev>>

test_inst_init_store == FlowStore("test_inst_init")
test_inst_init_store_query == FlowStoreQuery("test_inst_init")
test_inst_init_instantiate == FlowInstantiate("test_inst_init")
test_inst_init_init_query == FlowInitQuery("test_inst_init")

\* list_code()?, the scan for the code hash, the save under the name, Ok
test_inst_init_list_code ==
    /\ op = "test_inst_init"
    /\ pc = "list_code"
    /\ run.pc = "done"
    /\ LET listed_contracts == HelperResult("CodeList")
       IN  IF listed_contracts.kind = "Err"
             THEN /\ Return(listed_contracts)
                  /\ UNCHANGED <<contract, fs, hist>>
           ELSE LET c == [contract EXCEPT !.code_hash =
                              FindHash(listed_contracts.v.items, contract.id, @)]
                IN  /\ contract' = c
                    /\ IF SaveName(arg.name) # None
                         THEN \E env \in SaveEnvs :
                                LET s == save_contract(fs, SaveName(arg.name)[1],
                                                       c, env)
                                IN  /\ fs' = s.fs
                                    /\ hist' = [hist EXCEPT
                                                   !.okSteps = @ + 1,
                                                   !.saves = @ + 1,
                                                   !.wrote = s.wrote]
                                    /\ IF s.panic
                                         THEN Return(Panic(
                                                  "unwrap on File::create"))
                                         ELSE Return(Ok(c))
                         ELSE /\ Return(Ok(c))
                              /\ hist' = [hist EXCEPT !.okSteps = @ + 1]
                              /\ UNCHANGED fs
    /\ UNCHANGED <<op, arg, prev>>

inst_init_store == FlowStore("inst_init")
inst_init_store_query == FlowStoreQuery("inst_init")
inst_init_instantiate == FlowInstantiate("inst_init")
inst_init_init_query == FlowInitQuery("inst_init")

\* list_code()?, the scan for the code hash, Ok
inst_init_list_code ==
    /\ op = "inst_init"
    /\ pc = "list_code"
    /\ run.pc = "done"
    /\ LET listed_contracts == HelperResult("CodeList")
       IN  IF listed_contracts.kind = "Err"
             THEN Return(listed_contracts) /\ UNCHANGED <<contract, hist>>
             ELSE /\ contract' = [contract EXCEPT !.code_hash =
                         FindHash(listed_contracts.v.items, contract.id, @)]
                  /\ Return(Ok(contract'))
                  /\ hist' = [hist EXCEPT !.okSteps = @ + 1]
    /\ UNCHANGED <<op, arg, fs, prev>>

----------------------------------------------------------------------------
(* The state after construction, and the specifications *)

\* the files a cache can hold before the first call
InitFiles ==
    {NoFile, [exists |-> TRUE, data |-> <<>>],
     [exists |-> TRUE, data |-> Serialize(NetContract("lbl", "7", "A", "h7"))]}

InitFs ==
    {[dir |-> FALSE, files |-> [n \in Names |-> NoFile]]}
    \cup {[dir |-> TRUE, files |-> fl] : fl \in [Names -> InitFiles]}

Init ==
    /\ op = "idle"
    /\ pc = "idle"
    /\ arg = [name |-> None]
    /\ run = RunOff
    /\ contract = EmptyContract("")
    /\ ret = Pending
    /\ fs \in InitFs
    /\ hist = Hist0(fs)
    /\ prev = NoPrev

Runner ==
    \/ secretcli_run_output
    \/ secretcli_run_loop
    \/ secretcli_run_return

\* the instantiate-and-resolve flows over the cache
Next ==
    \/ Runner
    \/ call_test_inst_init
    \/ test_inst_init_load
    \/ test_inst_init_store
    \/ test_inst_init_store_query
    \/ test_inst_init_instantiate
    \/ test_inst_init_init_query
    \/ test_inst_init_list_code
    \/ call_inst_init
    \/ inst_init_store
    \/ inst_init_store_query
    \/ inst_init_instantiate
    \/ inst_init_init_query
    \/ inst_init_list_code
    \/ call_load_cached_contract

Spec == Init /\ [][Next]_vars

\* the cache on its own: saves and loads in any order
NextCache ==
    \/ call_save_contract
    \/ call_load_cached_contract

SpecCache == Init /\ [][NextCache]_vars

\* the helpers that hand one command to the runner
NextHelpers ==
    \/ Runner
    \/ call_store_contract
    \/ store_contract_return
    \/ call_instantiate_contract
    \/ instantiate_contract_return
    \/ call_execute_contract
    \/ execute_contract_return
    \/ call_account_address
    \/ account_address_output
    \/ account_address_loop
    \/ account_address_return

\* the helpers do not touch the cache: one cache is enough
InitHelpers == Init /\ ~fs.dir

SpecHelpers == InitHelpers /\ [][NextHelpers]_vars

----------------------------------------------------------------------------
(* The claims *)

HelperOps ==
    {"store_contract", "instantiate_contract", "execute_contract"}

\* every invocation of this call to the runner wrote to stderr
AllStderr == hist.inv > 0 /\ hist.emptyAt = 0 /\ ~hist.launchFail

\* what parsing a stdout document must give
ParseOf(stdout) ==
    IF stdout.t = "json"
      THEN [kind |-> "Ok", v |-> [shape |-> stdout.shape, v |-> stdout.v]]
      ELSE [kind |-> "Err", e |-> "serde_json::Error"]

\* C1: when every invocation of a call to the runner writes to stderr, the
\* daemon is retried exactly 20 times, each retry after one sleep, and the
\* call then ends with the parse result of the last stdout (secretcli_run,
\* parsed once) or with that stdout trimmed (account_address); running out of
\* retries raises no error of its own.
C1_RetryCeiling ==
    AllStderr =>
        /\ hist.inv <= 21
        /\ hist.sleeps = hist.inv - 1
        /\ ret.kind # "panic"
        /\ run.pc = "done" =>
              /\ hist.inv = 21
              /\ hist.sleeps = 20
              /\ hist.parses = 1
              /\ hist.parsed = run.result.stdout
              /\ run.out = ParseOf(run.result.stdout)
        /\ (op \in HelperOps /\ pc = "returned") =>
              /\ hist.inv = 21
              /\ hist.parses = 1
              /\ ret = IF hist.parsed.t = "json"
                            /\ hist.parsed.shape = "TxResponse"
                         THEN [kind |-> "Ok", v |-> hist.parsed.v]
                         ELSE [kind |-> "Err", e |-> "serde_json::Error"]
        /\ (op = "account_address" /\ pc = "returned") =>
              /\ hist.inv = 21
              /\ hist.sleeps = 20
              /\ ret.kind = "Ok"

\* C1's case: twenty retries, all with stderr, and a parse error returned
C1_Witness ==
    /\ AllStderr
    /\ op = "store_contract"
    /\ pc = "returned"
    /\ hist.inv = 21
    /\ ret.kind = "Err"

\* C9: in secretcli_run the first invocation that leaves stderr empty is the
\* last one: no sleep and no invocation follows it, its stdout is what is
\* parsed, once, and a parse failure goes to the caller as an error.
C9_EmptyStderrEnds ==
    (op # "account_address" /\ hist.emptyAt > 0) =>
        /\ hist.inv = hist.emptyAt
        /\ hist.sleeps = hist.emptyAt - 1
        /\ hist.parses <= 1
        /\ hist.parses = 1 =>
              /\ hist.parsed = hist.emptyOut
              /\ run.pc = "done" => run.out = ParseOf(hist.emptyOut)
        /\ (op \in HelperOps /\ pc = "returned") =>
              /\ hist.parses = 1
              /\ hist.emptyOut.t # "json" =>
                    ret = [kind |-> "Err", e |-> "serde_json::Error"]

\* C9's case: stderr empty on the third invocation, whose stdout is no JSON
C9_Witness ==
    /\ op = "execute_contract"
    /\ pc = "returned"
    /\ hist.emptyAt = 3
    /\ hist.inv = 3
    /\ hist.emptyOut.t # "json"
    /\ ret.kind = "Err"

\* C6: a launch failure, on the first invocation or on a retry, ends the call
\* there (no sleep, no invocation, no parse after it) with a panic, which is
\* not the serde_json error of a parse failure and is not swallowed.
C6_LaunchFailure ==
    hist.launchFail =>
        /\ pc = "returned"
        /\ run.pc = "off"
        /\ ret.kind = "panic"
        /\ ret # [kind |-> "Err", e |-> "serde_json::Error"]
        /\ hist.inv = hist.failAt
        /\ hist.sleeps = hist.failAt - 1
        /\ hist.parses = 0

\* C6's case: the launch fails on a retry
C6_Witness ==
    /\ hist.launchFail
    /\ hist.failAt = 4
    /\ op = "instantiate_contract"
    /\ ret.kind = "panic"

OptPair(flag, o) == IF o = <<>> THEN <<>> ELSE <<flag, o[1]>>

\* C4: the argument sequence handed to the runner is the documented command:
\* store = tx compute store <path> --from <user> --gas <gas>
\* [--keyring-backend <backend>] -y, and likewise instantiate and execute, with
\* the defaults "a", "10000000" and "800000" and -y last.
C4_CommandShape ==
    run.pc # "off" =>
        /\ op = "store_contract" =>
              run.given =
                  <<"tx", "compute", "store", arg.contract, "--from",
                    IF arg.user = <<>> THEN "a" ELSE arg.user[1], "--gas",
                    IF arg.gas = <<>> THEN "10000000" ELSE arg.gas[1]>>
                  \o OptPair("--keyring-backend", arg.backend) \o <<"-y">>
        /\ op = "instantiate_contract" =>
              run.given =
                  <<"tx", "compute", "instantiate", arg.contract.id, arg.msg,
                    "--from", arg.sender, "--label", arg.label, "--gas",
                    IF arg.gas = <<>> THEN "10000000" ELSE arg.gas[1]>>
                  \o OptPair("--keyring-backend", arg.backend) \o <<"-y">>
        /\ op = "execute_contract" =>
              run.given =
                  <<"tx", "compute", "execute", arg.contract.address, arg.msg,
                    "--from", arg.sender, "--gas",
                    IF arg.gas = <<>> THEN "800000" ELSE arg.gas[1]>>
                  \o OptPair("--keyring-backend", arg.backend)
                  \o OptPair("--amount", arg.amount) \o <<"-y">>

C5_SaveNeverCrashes ==
    (/\ op = "test_inst_init"
     /\ pc = "returned"
     /\ arg.name # <<>>
     /\ hist.okSteps = 5)
        => ret.kind = "Ok"

\* the value of the first attribute with the key, "" when there is none
FirstValue(attributes, key) ==
    LET hits == {k \in 1..Len(attributes) : attributes[k].msg_key = key}
    IN  IF hits = {} THEN ""
        ELSE attributes[CHOOSE k \in hits : \A j \in hits : k <= j].value

\* a step that got this stdout has a TxQuery with logs[0].events[0] to scan
Scannable(stdout) ==
    /\ stdout.t = "json"
    /\ stdout.shape = "TxQuery"
    /\ Len(stdout.v.logs) > 0
    /\ Len(stdout.v.logs[1].events) > 0

\* C7: in both flows, id and address are the value of the first attribute of
\* logs[0].events[0] with the key code_id and contract_address, and "" when
\* there is none; and a flow never stops at a query that deserialized and has
\* logs[0].events[0], whether or not the key is there.
C7_AttributeScan ==
    op \in {"test_inst_init", "inst_init"} =>
        /\ hist.scans >= 1 =>
              contract.id = FirstValue(hist.storeAttrs, "code_id")
        /\ hist.scans = 1 => contract.address = ""
        /\ hist.scans = 2 =>
              contract.address = FirstValue(hist.initAttrs, "contract_address")
        /\ (pc = "returned" /\ hist.okSteps \in {1, 3} /\ ~hist.launchFail
              /\ hist.parses = 1)
              => ~Scannable(hist.parsed)
        /\ hist.okSteps >= 2 <=> hist.scans >= 1
        /\ hist.okSteps >= 4 <=> hist.scans = 2

\* C7's case: no code_id in the store query, the flow went on, and the
\* address was found in the instantiate query
C7_Witness ==
    /\ op = "inst_init"
    /\ pc = "list_code"
    /\ hist.scans = 2
    /\ \A k \in 1..Len(hist.storeAttrs) : hist.storeAttrs[k].msg_key # "code_id"
    /\ contract.id = ""
    /\ contract.address = "A"

\* C8: load_cached_contract(None) fails with the "no cached contract" error,
\* touches no file and leaves the cache as it was; test_inst_init called
\* without a name never returns that error: it goes on to store, then
\* instantiate.
C8_NoName ==
    /\ (op = "load_cached_contract" /\ pc = "returned" /\ arg.name = <<>>) =>
          /\ ret = [kind |-> "Err",
                    e |-> "io::Error(Other, no cached contract found)"]
          /\ hist.fileOps = 0
          /\ fs = hist.fs0
    /\ (op = "test_inst_init" /\ arg.name = <<>> /\ pc # "load") =>
          /\ hist.fileOps = 0
          /\ fs = hist.fs0
          /\ ret # [kind |-> "Err",
                    e |-> "io::Error(Other, no cached contract found)"]
          /\ pc = "returned" => Len(hist.cmds) >= 1
          /\ Len(hist.cmds) >= 1 => SubSeq(hist.cmds[1], 1, 3)
                                       = <<"tx", "compute", "store">>
          /\ Len(hist.cmds) >= 3 => SubSeq(hist.cmds[3], 1, 3)
                                       = <<"tx", "compute", "instantiate">>

\* C8's case: a call without a name deployed while the cache held a contract
C8_Witness ==
    /\ op = "test_inst_init"
    /\ arg.name = <<>>
    /\ pc = "returned"
    /\ ret.kind = "Ok"
    /\ Len(hist.cmds) = 5
    /\ Len(fs.files["n1"].data) = 4

\* C10: a call of test_inst_init writes the cache at most once, as its last
\* step and only after store, the store query, instantiate, the instantiate
\* query and list_code returned Ok in that order; a call that fails before,
\* hits the cache or has no name leaves every file as it was, and a call that
\* saves leaves every other file as it was.
C10_CacheWrite ==
    op = "test_inst_init" =>
        /\ hist.saves <= 1
        /\ hist.saves = 1 =>
              /\ pc = "returned"
              /\ arg.name # <<>>
              /\ hist.okSteps = 5
              /\ [k \in 1..5 |-> SubSeq(hist.cmds[k], 1, 2)]
                    = << <<"tx", "compute">>, <<"q", "tx">>,
                         <<"tx", "compute">>, <<"q", "tx">>,
                         <<"query", "compute">> >>
              /\ <<hist.cmds[1][3], hist.cmds[3][3], hist.cmds[5][3]>>
                    = <<"store", "instantiate", "list-code">>
              /\ \A n \in DOMAIN fs.files :
                    n # arg.name[1] => fs.files[n] = hist.fs0.files[n]
        /\ hist.saves = 0 => fs = hist.fs0
        /\ (pc = "returned" /\ hist.okSteps < 5) => hist.saves = 0

\* C10's case: a deployment that wrote the cache
C10_Witness ==
    /\ op = "test_inst_init"
    /\ pc = "returned"
    /\ hist.saves = 1
    /\ fs # hist.fs0
    /\ ret.kind = "Ok"

====
